---- MODULE Spec2Model ----
(***************************************************************************)
(* A model of the AI-Task-Notify-Hook notification core: the provider      *)
(* registry and show_notification (components/.../notification/core.py),   *)
(* the NotificationRequest model (components/.../models/core.py), the       *)
(* configuration loader (components/.../config/loader.py), the exception    *)
(* taxonomy (components/.../validation/exceptions.py) and the command line  *)
(* entry point main (bases/.../cli/core.py).                                *)
(*                                                                          *)
(* The program is single-threaded and every public operation runs to        *)
(* completion, so each operation is one atomic action.  The variable        *)
(* `last` records the call that has just completed: its inputs, the         *)
(* module state it started from, what it returned or raised and every       *)
(* provider / backend invocation it made.                                   *)
(***************************************************************************)
EXTENDS Integers, Sequences, FiniteSets, TLC

(***************************************************************************)
(* Bounds of the model.                                                     *)
(***************************************************************************)
\* longest title explored (characters)
MaxTitleLen == 2
\* number of distinct custom provider identities
MaxCustom == 2
\* cap on the standard provider instances a run may construct
MaxStd == 2
\* the count of failed constructions saturates here
MaxFail == 2
\* threads that resolve the default provider concurrently
ThreadCount == 2
\* longest title given to the NotificationRequest constructor directly
MaxTextLen == 3

(***************************************************************************)
(* Program constants.                                                       *)
(***************************************************************************)
\* NotificationRequest.timeout: Field(default=10, ge=1, le=300)
TimeoutMin == 1
TimeoutMax == 300
TimeoutDefault == 10
\* NotificationConfig.timeout default and TimeoutSeconds range
ConfigTimeoutDefault == 10
ConfigTimeoutMin == 1
ConfigTimeoutMax == 300
\* AppName = Annotated[str, Field(min_length=1, max_length=100)]
AppNameMaxLen == 100
\* exit codes of main
ExitOk == 0
ExitInterrupt == 1
ExitBackend == 2
ExitConfig == 3
ExitValidation == 4
ExitGeneric == 1
\* exit status of the interpreter for an exception nobody caught
ExitUncaught == 1
\* argparse: parser.error() exits with status 2, --help with 0
ExitUsage == 2
ExitHelp == 0
\* request.timeout * 1000 on Linux
MsPerSecond == 1000

(***************************************************************************)
(* Exceptions.  An exception is a record; `cls` is its class, and BaseOf is  *)
(* read off the class statements.                                           *)
(***************************************************************************)
NoExc == [cls |-> "None", msg |-> <<>>, cause |-> "None", code |-> -1]

\* an exception object: its class, the parts of its message, the class of its
\* __cause__ (raise ... from exc) and, for SystemExit, its exit status
Exc(cls, msg, cause) == [cls |-> cls, msg |-> msg, cause |-> cause, code |-> -1]

\* SystemExit(code), raised by sys.exit and by argparse
SystemExit(code) ==
    [cls |-> "SystemExit", msg |-> <<>>, cause |-> "None", code |-> code]

\* the direct base class of every exception class the program meets
BaseOf(cls) ==
    CASE cls = "NotificationError" -> "Exception"
      [] cls = "ConfigurationError" -> "NotificationError"
      [] cls = "ValidationError" -> "NotificationError"
      [] cls = "NotificationBackendError" -> "NotificationError"
      [] cls = "PydanticValidationError" -> "ValueError"
      [] cls = "JSONDecodeError" -> "ValueError"
      [] cls = "UnicodeDecodeError" -> "ValueError"
      [] cls = "ValueError" -> "Exception"
      [] cls = "OSError" -> "Exception"
      [] cls = "RuntimeError" -> "Exception"
      [] cls = "AttributeError" -> "Exception"
      [] cls = "ImportError" -> "Exception"
      [] cls = "Exception" -> "BaseException"
      [] cls = "KeyboardInterrupt" -> "BaseException"
      [] cls = "SystemExit" -> "BaseException"
      [] OTHER -> "object"

RECURSIVE IsSubclass(_, _)
IsSubclass(cls, target) ==
    IF cls = target THEN TRUE
    ELSE IF cls \in {"object", "None"} THEN FALSE
    ELSE IsSubclass(BaseOf(cls), target)

\* isinstance(exc, target): what an `except target:` clause tests
IsInstance(exc, target) == exc.cls # "None" /\ IsSubclass(exc.cls, target)

(***************************************************************************)
(* Text.  A str is a sequence of characters; " " stands for any whitespace. *)
(***************************************************************************)
Chars == {" ", "a"}

RECURSIVE StrOfLen(_)
StrOfLen(n) ==
    IF n = 0 THEN {<<>>}
    ELSE {Append(s, c) : s \in StrOfLen(n - 1), c \in Chars}

RECURSIVE StrUpTo(_)
StrUpTo(n) == IF n = 0 THEN StrOfLen(0) ELSE StrOfLen(n) \cup StrUpTo(n - 1)

Titles == StrUpTo(MaxTitleLen)
\* messages go through the same field definition as titles; the empty, the
\* blank and the one-character message cover its three cases
Messages == StrUpTo(1)

RECURSIVE LStrip(_)
LStrip(s) == IF s # <<>> /\ Head(s) = " " THEN LStrip(Tail(s)) ELSE s

RECURSIVE RStrip(_)
RStrip(s) ==
    IF s # <<>> /\ s[Len(s)] = " " THEN RStrip(SubSeq(s, 1, Len(s) - 1)) ELSE s

\* str.strip()
Strip(s) == RStrip(LStrip(s))

(***************************************************************************)
(* NotificationRequest (pydantic model, frozen and strict).                 *)
(***************************************************************************)
Levels == {"info", "success", "warning", "error"}

NoRequest == [title |-> <<>>, message |-> <<>>, level |-> "None", timeout |-> 0]

\* Field(min_length=1) on a str field
MinLengthOk(v) == Len(v) >= 1

\* the validator without the strip: only the empty text is rejected
StripValidateOk_NoStrip(v) == v # <<>>

\* strip_and_validate_text: the stripped text is non-empty
StripValidateOk(v) == Strip(v) # <<>>

\* a title or message passes the field constraint, then the validator
TextFieldOk(v) == MinLengthOk(v) /\ StripValidateOk(v)

\* Field(ge=1, le=300) on timeout
TimeoutFieldOk(t) == t >= TimeoutMin /\ t <= TimeoutMax

\* a validator that checks the stripped text but returns the text as given
NotificationRequest_NoStrip(title, message, level, timeout) ==
    IF TextFieldOk(title) /\ TextFieldOk(message)
       /\ level \in Levels /\ TimeoutFieldOk(timeout)
    THEN [exc |-> NoExc,
          value |-> [title |-> title, message |-> message,
                     level |-> level, timeout |-> timeout]]
    ELSE [exc |-> Exc("PydanticValidationError",
                      <<"validation error for NotificationRequest">>, "None"),
          value |-> NoRequest]

\* NotificationRequest(title=..., message=..., level=..., timeout=...):
\* the request, or the validation library's ValidationError
NotificationRequest(title, message, level, timeout) ==
    IF TextFieldOk(title) /\ TextFieldOk(message)
       /\ level \in Levels /\ TimeoutFieldOk(timeout)
    THEN [exc |-> NoExc,
          value |-> [title |-> Strip(title), message |-> Strip(message),
                     level |-> level, timeout |-> timeout]]
    ELSE [exc |-> Exc("PydanticValidationError",
                      <<"validation error for NotificationRequest">>, "None"),
          value |-> NoRequest]

\* NotificationRequest(title=..., message=...) with level and timeout given
\* or left to the field defaults
NotificationRequestWithDefaults(title, message, has_level, level, has_timeout, timeout) ==
    NotificationRequest(title, message,
                        IF has_level THEN level ELSE "info",
                        IF has_timeout THEN timeout ELSE TimeoutDefault)

\* a model that is not frozen: the assignment goes through
SetAttr_Mutable(request, field, value) ==
    [exc |-> NoExc, value |-> [request EXCEPT ![field] = value]]

\* request.<field> = value on a frozen model: pydantic raises its
\* ValidationError (frozen_instance) and assigns nothing
SetAttr(request, field, value) ==
    [exc |-> Exc("PydanticValidationError", <<"Instance is frozen">>, "None"),
     value |-> request]

(***************************************************************************)
(* Providers.  A provider object is identified by its class and an id;      *)
(* `truthy` is bool(provider): a class may define __bool__ or __len__.      *)
(* The standard provider defines neither, so its instances are truthy.      *)
(***************************************************************************)
NoneP == [cls |-> "None", id |-> 0, truthy |-> FALSE]

CustomProviders == [cls : {"Custom"}, id : 1..MaxCustom, truthy : BOOLEAN]

StandardInstance(n) == [cls |-> "Standard", id |-> n, truthy |-> TRUE]

\* bool(p)
Truthy(p) == p # NoneP /\ p.truthy

\* What the code underneath a provider does when asked to send: for a
\* custom provider its send_notification body (it returns True or False, or
\* raises), for the standard provider the DesktopNotifier.send coroutine run
\* by asyncio.run (it returns, or raises).
\* AttributeError is what a notifier without a send method gives.
Behaviours == {"True", "False", "RuntimeError", "AttributeError",
               "KeyboardInterrupt", "NotificationError",
               "NotificationBackendError", "ConfigurationError",
               "ValidationError"}

Platforms == {"linux", "win32"}

(***************************************************************************)
(* The standard provider.                                                   *)
(***************************************************************************)
\* a constructor that reports the missing library as a generic failure
StandardNotificationProviderInit_Generic(avail, n) ==
    IF ~avail
    THEN [exc |-> Exc("NotificationError",
                      <<"desktop-notifier library not properly imported">>,
                      "ImportError"),
          value |-> NoneP]
    ELSE [exc |-> NoExc, value |-> StandardInstance(n + 1)]

\* StandardNotificationProvider(): `avail` is "DesktopNotifier is not None",
\* `n` the number of instances constructed so far.
StandardNotificationProviderInit(avail, n) ==
    IF ~avail
    THEN [exc |-> Exc("NotificationBackendError",
                      <<"desktop-notifier library not properly imported">>,
                      "ImportError"),
          value |-> NoneP]
    ELSE [exc |-> NoExc, value |-> StandardInstance(n + 1)]

\* a mapping that escalates warnings too
GetUrgencyForLevel_WarningCritical(level, avail) ==
    IF ~avail
    THEN [exc |-> Exc("NotificationBackendError",
                      <<"desktop-notifier not available">>, "None"),
          value |-> "None"]
    ELSE [exc |-> NoExc,
          value |-> IF level \in {"error", "warning"} THEN "Critical"
                    ELSE "Normal"]

\* _get_urgency_for_level: `avail` is "Urgency is not None"
GetUrgencyForLevel(level, avail) ==
    IF ~avail
    THEN [exc |-> Exc("NotificationBackendError",
                      <<"desktop-notifier not available">>, "None"),
          value |-> "None"]
    ELSE [exc |-> NoExc,
          value |-> IF level = "error" THEN "Critical" ELSE "Normal"]

\* the keyword arguments of self._notifier.send(...); timeout_ms = -1 stands
\* for the call without a timeout argument
BackendCall(request, urgency, platform) ==
    [title |-> request.title, message |-> request.message, urgency |-> urgency,
     timeout_ms |-> IF platform = "linux" THEN request.timeout * MsPerSecond
                    ELSE -1]

\* a wrong clause: every failure of the send is reported as the backend
\* being unavailable
WrapSendFailure_AsBackendError(exc) ==
    IF IsInstance(exc, "Exception")
    THEN Exc("NotificationBackendError",
             <<"Failed to show notification: ">> \o exc.msg, exc.cls)
    ELSE exc

\* the `except Exception as exc` clause of send_notification
WrapSendFailure(exc) ==
    IF IsInstance(exc, "Exception")
    THEN Exc("NotificationError",
             <<"Failed to show notification: ">> \o exc.msg, exc.cls)
    ELSE exc

\* a send that answers a failure with False, as its docstring says
StandardSendNotification_ReturnsFalse(request, behaviour, avail, platform) ==
    LET u == GetUrgencyForLevel(request.level, avail) IN
    IF u.exc # NoExc
    THEN [exc |-> NoExc, ret |-> "False", calls |-> <<>>]
    ELSE LET call == BackendCall(request, u.value, platform) IN
         IF behaviour \in {"True", "False"}
         THEN [exc |-> NoExc, ret |-> "True", calls |-> <<call>>]
         ELSE IF IsInstance(Exc(behaviour, <<behaviour>>, "None"), "Exception")
         THEN [exc |-> NoExc, ret |-> "False", calls |-> <<call>>]
         ELSE [exc |-> Exc(behaviour, <<behaviour>>, "None"), ret |-> "None",
               calls |-> <<call>>]

\* StandardNotificationProvider.send_notification(request); `behaviour` is
\* what the backend's send does
StandardSendNotification(request, behaviour, avail, platform) ==
    LET u == GetUrgencyForLevel(request.level, avail) IN
    IF u.exc # NoExc
    THEN [exc |-> WrapSendFailure(u.exc), ret |-> "None", calls |-> <<>>]
    ELSE LET call == BackendCall(request, u.value, platform) IN
         IF behaviour \in {"True", "False"}
         THEN [exc |-> NoExc, ret |-> "True", calls |-> <<call>>]
         ELSE [exc |-> WrapSendFailure(Exc(behaviour, <<behaviour>>, "None")),
               ret |-> "None", calls |-> <<call>>]

\* a custom provider's send_notification(request): anything its author wrote
CustomSendNotification(request, behaviour) ==
    IF behaviour \in {"True", "False"}
    THEN [exc |-> NoExc, ret |-> behaviour, calls |-> <<>>]
    ELSE [exc |-> Exc(behaviour, <<behaviour>>, "None"), ret |-> "None",
          calls |-> <<>>]

\* provider.send_notification(request), dispatched on the provider's class
SendNotification(provider, request, behaviour, avail, platform) ==
    IF provider.cls = "Standard"
    THEN StandardSendNotification(request, behaviour, avail, platform)
    ELSE CustomSendNotification(request, behaviour)

(***************************************************************************)
(* The provider registry: the module global _default_provider and the       *)
(* lru_cache(maxsize=1) around _get_cached_standard_provider.               *)
(***************************************************************************)
\* the function without its lru_cache decorator: every call constructs
GetCachedStandardProvider_NoCache(c, avail, n) ==
    LET r == StandardNotificationProviderInit(avail, n) IN
    [exc |-> r.exc, value |-> r.value,
     cache |-> IF r.exc = NoExc THEN r.value ELSE c,
     attempts |-> 1, built |-> IF r.exc = NoExc THEN 1 ELSE 0]

\* a memoisation that also remembers a call that raised: the failed
\* construction leaves a half-built entry behind, later calls return it
GetCachedStandardProvider_CachesFailure(c, avail, n) ==
    IF c # NoneP
    THEN [exc |-> NoExc, value |-> c, cache |-> c, attempts |-> 0, built |-> 0]
    ELSE LET r == StandardNotificationProviderInit(avail, n) IN
         [exc |-> r.exc, value |-> r.value,
          cache |-> IF r.exc = NoExc THEN r.value ELSE StandardInstance(0),
          attempts |-> 1, built |-> IF r.exc = NoExc THEN 1 ELSE 0]

\* _get_cached_standard_provider(): `c` is the cached instance (NoneP: the
\* cache is empty).  lru_cache stores a result only when the call returns.
GetCachedStandardProvider(c, avail, n) ==
    IF c # NoneP
    THEN [exc |-> NoExc, value |-> c, cache |-> c, attempts |-> 0, built |-> 0]
    ELSE LET r == StandardNotificationProviderInit(avail, n) IN
         [exc |-> r.exc, value |-> r.value,
          cache |-> IF r.exc = NoExc THEN r.value ELSE c,
          attempts |-> 1, built |-> IF r.exc = NoExc THEN 1 ELSE 0]

\* `if _default_provider:` in place of `is not None`
GetDefaultProvider_Truthy(d, c, avail, n) ==
    IF Truthy(d)
    THEN [exc |-> NoExc, value |-> d, cache |-> c, attempts |-> 0, built |-> 0]
    ELSE GetCachedStandardProvider(c, avail, n)

\* get_default_provider(): `d` is _default_provider
GetDefaultProvider(d, c, avail, n) ==
    IF d # NoneP
    THEN [exc |-> NoExc, value |-> d, cache |-> c, attempts |-> 0, built |-> 0]
    ELSE GetCachedStandardProvider(c, avail, n)

\* `provider or get_default_provider()` in show_notification
ResolveProvider(provider, d, c, avail, n) ==
    IF Truthy(provider)
    THEN [exc |-> NoExc, value |-> provider, cache |-> c, attempts |-> 0,
          built |-> 0]
    ELSE GetDefaultProvider(d, c, avail, n)

\* show_notification(title, message, level, timeout, provider)
ShowNotification(title, message, level, timeout, provider, behaviour, d, c, avail, n, platform) ==
    LET res == ResolveProvider(provider, d, c, avail, n)
        base == [exc |-> res.exc, resolved |-> res.value, cache |-> res.cache,
                 attempts |-> res.attempts, built |-> res.built,
                 has_request |-> FALSE, request |-> NoRequest,
                 sends |-> <<>>, send_ret |-> "None", backend_calls |-> <<>>,
                 behaviour |-> "None"]
    IN
    IF res.exc # NoExc THEN base
    ELSE LET req == NotificationRequest(title, message, level, timeout) IN
         IF req.exc # NoExc THEN [base EXCEPT !.exc = req.exc]
         ELSE LET snd == SendNotification(res.value, req.value, behaviour,
                                          avail, platform) IN
              [base EXCEPT !.exc = snd.exc,
                           !.has_request = TRUE,
                           !.request = req.value,
                           !.sends = <<[provider |-> res.value,
                                        request |-> req.value]>>,
                           !.send_ret = snd.ret,
                           !.backend_calls = snd.calls,
                           !.behaviour = behaviour]

(***************************************************************************)
(* Configuration (config/models.py, config/loader.py).  A JSON value is a   *)
(* record tagged with its JSON type; JAbsent is a key the object lacks.     *)
(***************************************************************************)
JAbsent == [t |-> "absent", i |-> 0, s |-> <<>>, b |-> FALSE]
JInt(i) == [t |-> "int", i |-> i, s |-> <<>>, b |-> FALSE]
JStr(str) == [t |-> "str", i |-> 0, s |-> str, b |-> FALSE]
JBool(b) == [t |-> "bool", i |-> 0, s |-> <<>>, b |-> b]

Digits == {"0", "1", "2"}

\* the pattern ^\d+\.\d+\.\d+$ matched from the start of `s`: `part` numbers
\* the part being read, `seen` says it has a digit already
RECURSIVE SemverFrom(_, _, _)
SemverFrom(s, part, seen) ==
    IF s = <<>> THEN part = 3 /\ seen
    ELSE IF Head(s) \in Digits THEN SemverFrom(Tail(s), part, TRUE)
    ELSE IF Head(s) = "." THEN seen /\ part < 3
                               /\ SemverFrom(Tail(s), part + 1, FALSE)
    ELSE FALSE

\* SemverVersion: a strict str, whitespace-stripped, matching the pattern
VersionOk(v) == v.t = "str" /\ SemverFrom(Strip(v.s), 1, FALSE)

\* debug: a strict bool
DebugOk(v) == v.t = "bool"

\* TimeoutSeconds: a strict int with ge=1, le=300
ConfigTimeoutOk(v) ==
    v.t = "int" /\ v.i >= ConfigTimeoutMin /\ v.i <= ConfigTimeoutMax

\* AppName: a strict str, whitespace-stripped, min_length=1, max_length=100
AppNameOk(v) ==
    v.t = "str" /\ Len(Strip(v.s)) >= 1 /\ Len(Strip(v.s)) <= AppNameMaxLen

DefaultVersion == <<"1", ".", "0", ".", "0">>
DefaultAppName == <<"C", "l", "a", "u", "d", "e", " ", "C", "o", "d", "e">>

\* ApplicationConfig(): every field at its default
DefaultConfig ==
    [version |-> DefaultVersion, debug |-> FALSE,
     app_name |-> DefaultAppName, timeout |-> ConfigTimeoutDefault]

NoConfig == [version |-> <<>>, debug |-> FALSE, app_name |-> <<>>, timeout |-> 0]

\* lenient validation: an invalid field is replaced by its default and the
\* other fields of the file are kept
ModelValidate_PerFieldFallback(data) ==
    IF data.shape = "object"
    THEN [exc |-> NoExc,
          value |->
            [version |-> IF data.version # JAbsent /\ VersionOk(data.version)
                         THEN Strip(data.version.s) ELSE DefaultVersion,
             debug |-> IF data.debug # JAbsent /\ DebugOk(data.debug)
                       THEN data.debug.b ELSE FALSE,
             app_name |-> IF data.app_name # JAbsent /\ AppNameOk(data.app_name)
                          THEN Strip(data.app_name.s) ELSE DefaultAppName,
             timeout |-> IF data.timeout # JAbsent
                            /\ ConfigTimeoutOk(data.timeout)
                         THEN data.timeout.i ELSE ConfigTimeoutDefault]]
    ELSE [exc |-> Exc("PydanticValidationError",
                      <<"validation error for ApplicationConfig">>, "None"),
          value |-> NoConfig]

\* a model without field defaults: a file that leaves a field out is
\* answered with the all-defaults object
ModelValidate_AllOrNothing(data) ==
    IF /\ data.shape = "object"
       /\ ~data.extra
       /\ (data.version = JAbsent \/ VersionOk(data.version))
       /\ (data.debug = JAbsent \/ DebugOk(data.debug))
       /\ (data.timeout = JAbsent \/ ConfigTimeoutOk(data.timeout))
       /\ (data.app_name = JAbsent \/ AppNameOk(data.app_name))
    THEN [exc |-> NoExc,
          value |->
            IF JAbsent \in {data.version, data.debug, data.timeout,
                            data.app_name}
            THEN DefaultConfig
            ELSE [version |-> Strip(data.version.s), debug |-> data.debug.b,
                  app_name |-> Strip(data.app_name.s),
                  timeout |-> data.timeout.i]]
    ELSE [exc |-> Exc("PydanticValidationError",
                      <<"validation error for ApplicationConfig">>, "None"),
          value |-> NoConfig]

\* ApplicationConfig.model_validate(data).  `data` is the parsed JSON:
\* shape "object" or another JSON type, the four known keys, and `extra`,
\* whether some unknown key is present (extra="forbid").
ModelValidate(data) ==
    IF /\ data.shape = "object"
       /\ ~data.extra
       /\ (data.version = JAbsent \/ VersionOk(data.version))
       /\ (data.debug = JAbsent \/ DebugOk(data.debug))
       /\ (data.timeout = JAbsent \/ ConfigTimeoutOk(data.timeout))
       /\ (data.app_name = JAbsent \/ AppNameOk(data.app_name))
    THEN [exc |-> NoExc,
          value |->
            [version |-> IF data.version = JAbsent THEN DefaultVersion
                         ELSE Strip(data.version.s),
             debug |-> IF data.debug = JAbsent THEN FALSE ELSE data.debug.b,
             app_name |-> IF data.app_name = JAbsent THEN DefaultAppName
                          ELSE Strip(data.app_name.s),
             timeout |-> IF data.timeout = JAbsent THEN ConfigTimeoutDefault
                         ELSE data.timeout.i]]
    ELSE [exc |-> Exc("PydanticValidationError",
                      <<"validation error for ApplicationConfig">>, "None"),
          value |-> NoConfig]

EmptyData ==
    [shape |-> "object", extra |-> FALSE, version |-> JAbsent,
     debug |-> JAbsent, timeout |-> JAbsent, app_name |-> JAbsent]

\* A file on disk: `state` is "missing", "unreadable" (open fails with
\* OSError), "undecodable" (not UTF-8), "malformed" (not JSON) or "json".
File(state, data) == [state |-> state, data |-> data]

MissingFile == File("missing", EmptyData)

DefaultConfigPath == "config/config.json"

\* Path(config_path) if config_path else Path("config/config.json")
ResolveConfigPath(config_path) ==
    IF config_path \in {"None", ""} THEN DefaultConfigPath ELSE config_path

\* config_path.open() and json.load(f): the parsed data or what they raise
ReadJson(file) ==
    CASE file.state = "unreadable" ->
           [exc |-> Exc("OSError", <<"Permission denied">>, "None"),
            value |-> EmptyData]
      [] file.state = "undecodable" ->
           [exc |-> Exc("UnicodeDecodeError", <<"invalid start byte">>, "None"),
            value |-> EmptyData]
      [] file.state = "malformed" ->
           [exc |-> Exc("JSONDecodeError", <<"Expecting property name">>, "None"),
            value |-> EmptyData]
      [] OTHER -> [exc |-> NoExc, value |-> file.data]

\* the two except clauses of load_config, in order
ConfigFailure(exc, path) ==
    IF IsInstance(exc, "JSONDecodeError") \/ IsInstance(exc, "ValueError")
    THEN Exc("ConfigurationError",
             <<"Failed to load configuration from ", path, ": ">> \o exc.msg,
             exc.cls)
    ELSE IF IsInstance(exc, "OSError")
    THEN Exc("ConfigurationError",
             <<"Failed to read configuration file ", path, ": ">> \o exc.msg,
             exc.cls)
    ELSE exc

\* the other reading of "missing": a missing file is a configuration error
LoadConfig_MissingRaises(config_path, file) ==
    LET path == ResolveConfigPath(config_path) IN
    IF file.state = "missing"
    THEN [exc |-> Exc("ConfigurationError",
                      <<"Configuration file not found: ", path>>, "None"),
          value |-> NoConfig, path |-> path]
    ELSE LET rd == ReadJson(file) IN
         IF rd.exc # NoExc
         THEN [exc |-> ConfigFailure(rd.exc, path), value |-> NoConfig,
               path |-> path]
         ELSE LET v == ModelValidate(rd.value) IN
              IF v.exc # NoExc
              THEN [exc |-> ConfigFailure(v.exc, path), value |-> NoConfig,
                    path |-> path]
              ELSE [exc |-> NoExc, value |-> v.value, path |-> path]

\* the other policy: any failure falls back to the defaults
LoadConfig_SilentFallback(config_path, file) ==
    LET path == ResolveConfigPath(config_path) IN
    IF file.state = "missing"
    THEN [exc |-> NoExc, value |-> DefaultConfig, path |-> path]
    ELSE LET rd == ReadJson(file) IN
         IF rd.exc # NoExc
         THEN [exc |-> NoExc, value |-> DefaultConfig, path |-> path]
         ELSE LET v == ModelValidate(rd.value) IN
              IF v.exc # NoExc
              THEN [exc |-> NoExc, value |-> DefaultConfig, path |-> path]
              ELSE [exc |-> NoExc, value |-> v.value, path |-> path]

\* load_config(config_path) when `file` is what the resolved path holds
LoadConfig(config_path, file) ==
    LET path == ResolveConfigPath(config_path) IN
    IF file.state = "missing"
    THEN [exc |-> NoExc, value |-> DefaultConfig, path |-> path]
    ELSE LET rd == ReadJson(file) IN
         IF rd.exc # NoExc
         THEN [exc |-> ConfigFailure(rd.exc, path), value |-> NoConfig,
               path |-> path]
         ELSE LET v == ModelValidate(rd.value) IN
              IF v.exc # NoExc
              THEN [exc |-> ConfigFailure(v.exc, path), value |-> NoConfig,
                    path |-> path]
              ELSE [exc |-> NoExc, value |-> v.value, path |-> path]

(***************************************************************************)
(* The dataclass variant of the configuration (config/core.py): its own     *)
(* field checks in __post_init__, and a load_config that answers every      *)
(* failure with the defaults.                                               *)
(***************************************************************************)
\* NotificationConfig.__post_init__ and ApplicationConfig.__post_init__
LegacyAppNameOk(v) == v.t = "str" /\ Strip(v.s) # <<>>

LegacyTimeoutOk(v) ==
    v.t = "int" /\ v.i >= ConfigTimeoutMin /\ v.i <= ConfigTimeoutMax

LegacyVersionOk(v) == v.t = "str" /\ Strip(v.s) # <<>>

LegacyDebugOk(v) == v.t = "bool"

\* Config.from_dict(data): data.get on a non-object raises AttributeError;
\* every exception is re-raised as ValueError.  Unknown keys are not read.
LegacyFromDict(data) ==
    IF /\ data.shape = "object"
       /\ (data.app_name = JAbsent \/ LegacyAppNameOk(data.app_name))
       /\ (data.timeout = JAbsent \/ LegacyTimeoutOk(data.timeout))
       /\ (data.version = JAbsent \/ LegacyVersionOk(data.version))
       /\ (data.debug = JAbsent \/ LegacyDebugOk(data.debug))
    THEN [exc |-> NoExc,
          value |->
            [version |-> IF data.version = JAbsent THEN DefaultVersion
                         ELSE data.version.s,
             debug |-> IF data.debug = JAbsent THEN FALSE ELSE data.debug.b,
             app_name |-> IF data.app_name = JAbsent THEN DefaultAppName
                          ELSE data.app_name.s,
             timeout |-> IF data.timeout = JAbsent THEN ConfigTimeoutDefault
                         ELSE data.timeout.i]]
    ELSE [exc |-> Exc("ValueError", <<"Invalid configuration data: ">>,
                      IF data.shape = "object" THEN "ValueError"
                      ELSE "AttributeError"),
          value |-> NoConfig]

\* load_config(config_path) of config/core.py: "None" stands for the call
\* without an argument
LegacyLoadConfig(config_path, file) ==
    LET path == IF config_path = "None" THEN DefaultConfigPath
                ELSE config_path IN
    IF file.state = "missing"
    THEN [exc |-> NoExc, value |-> DefaultConfig, path |-> path]
    ELSE LET rd == ReadJson(file) IN
         IF rd.exc # NoExc
         THEN [exc |-> NoExc, value |-> DefaultConfig, path |-> path]
         ELSE LET v == LegacyFromDict(rd.value) IN
              IF v.exc # NoExc
              THEN [exc |-> NoExc, value |-> DefaultConfig, path |-> path]
              ELSE [exc |-> NoExc, value |-> v.value, path |-> path]

(***************************************************************************)
(* The script variant (src/aitask_notify_hook/notify.py): show_notification *)
(* calls plyer's notification.notify itself.                                *)
(***************************************************************************)
\* what notification.notify does in the script variant: it returns, or raises
LegacyBehaviours ==
    {"True", "ImportError", "AttributeError", "RuntimeError",
     "KeyboardInterrupt"}

\* show_notification(title, message, app_name, timeout) of notify.py;
\* `config` is the module global app_config.  The three except clauses
\* (ImportError, AttributeError, Exception) all end in sys.exit(1).
LegacyShowNotification(title, message, has_timeout, timeout, config, behaviour) ==
    LET call == [title |-> title, message |-> message,
                 app_name |-> config.app_name,
                 timeout |-> IF has_timeout THEN timeout ELSE config.timeout]
        raised == Exc(behaviour, <<behaviour>>, "None")
    IN
    IF behaviour = "True"
    THEN [exc |-> NoExc, notify_calls |-> <<call>>]
    ELSE IF IsInstance(raised, "Exception")
    THEN [exc |-> SystemExit(ExitGeneric), notify_calls |-> <<call>>]
    ELSE [exc |-> raised, notify_calls |-> <<call>>]

(***************************************************************************)
(* Backend validation and the require_notification_backend decorator        *)
(* (validation/core.py).                                                    *)
(***************************************************************************)
SUPPORTED_PLATFORMS == {"Windows", "Darwin", "Linux"}

\* validate_platform_support(): `system` is platform.system()
ValidatePlatformSupport(system) ==
    IF system \notin SUPPORTED_PLATFORMS
    THEN [exc |-> Exc("NotificationBackendError",
                      <<"Platform '", system, "' not supported">>, "None"),
          value |-> "None"]
    ELSE [exc |-> NoExc, value |-> "True"]

\* validate_backend_available(): `plyer` is "missing" (the import fails),
\* "no_notify" (notification has no notify attribute) or "ok"
ValidateBackendAvailable(plyer) ==
    CASE plyer = "missing" ->
           [exc |-> Exc("NotificationBackendError",
                        <<"plyer library not installed or import failed">>,
                        "ImportError"),
            value |-> "None"]
      [] plyer = "no_notify" ->
           [exc |-> Exc("NotificationBackendError",
                        <<"plyer.notification.notify method not available">>,
                        "None"),
            value |-> "None"]
      [] OTHER -> [exc |-> NoExc, value |-> "True"]

\* the wrapped function: it returns, or raises `behaviour`
WrappedFunc(behaviour) ==
    IF behaviour = "None" THEN NoExc ELSE Exc(behaviour, <<behaviour>>, "None")

\* a wrapper that checks the backend before the platform
RequireNotificationBackend_BackendFirst(system, plyer, args, kwargs, behaviour) ==
    LET b == ValidateBackendAvailable(plyer)
        pl == ValidatePlatformSupport(system)
    IN
    IF b.exc # NoExc
    THEN [exc |-> b.exc, steps |-> <<"validate_backend_available">>,
          func_calls |-> <<>>]
    ELSE IF pl.exc # NoExc
    THEN [exc |-> pl.exc,
          steps |-> <<"validate_backend_available",
                      "validate_platform_support">>,
          func_calls |-> <<>>]
    ELSE [exc |-> WrappedFunc(behaviour),
          steps |-> <<"validate_backend_available",
                      "validate_platform_support", "func">>,
          func_calls |-> <<[args |-> args, kwargs |-> kwargs]>>]

\* wrapper(*args, **kwargs) of require_notification_backend(func): the
\* steps it ran, in order, and the calls it made to func
RequireNotificationBackend(system, plyer, args, kwargs, behaviour) ==
    LET pl == ValidatePlatformSupport(system)
        b == ValidateBackendAvailable(plyer)
    IN
    IF pl.exc # NoExc
    THEN [exc |-> pl.exc, steps |-> <<"validate_platform_support">>,
          func_calls |-> <<>>]
    ELSE IF b.exc # NoExc
    THEN [exc |-> b.exc,
          steps |-> <<"validate_platform_support",
                      "validate_backend_available">>,
          func_calls |-> <<>>]
    ELSE [exc |-> WrappedFunc(behaviour),
          steps |-> <<"validate_platform_support",
                      "validate_backend_available", "func">>,
          func_calls |-> <<[args |-> args, kwargs |-> kwargs]>>]

(***************************************************************************)
(* main (bases/ai_task_notify_hook/cli/core.py).                            *)
(***************************************************************************)
\* sys.argv as argparse sees it: "ok" (both positionals, --timeout an int
\* when given), "usage" (argparse rejects the arguments) or "help" (-h)
Argv(kind, title, message, has_timeout, timeout) ==
    [kind |-> kind, title |-> title, message |-> message,
     has_timeout |-> has_timeout, timeout |-> timeout]

\* --timeout parsed but the configured default passed on
ParseArgs_IgnoresTimeout(argv, config) ==
    CASE argv.kind = "usage" ->
           [exc |-> SystemExit(ExitUsage), title |-> <<>>, message |-> <<>>,
            timeout |-> 0]
      [] argv.kind = "help" ->
           [exc |-> SystemExit(ExitHelp), title |-> <<>>, message |-> <<>>,
            timeout |-> 0]
      [] OTHER ->
           [exc |-> NoExc, title |-> argv.title, message |-> argv.message,
            timeout |-> config.timeout]

\* parser.parse_args(): the namespace, or argparse's SystemExit
ParseArgs(argv, config) ==
    CASE argv.kind = "usage" ->
           [exc |-> SystemExit(ExitUsage), title |-> <<>>, message |-> <<>>,
            timeout |-> 0]
      [] argv.kind = "help" ->
           [exc |-> SystemExit(ExitHelp), title |-> <<>>, message |-> <<>>,
            timeout |-> 0]
      [] OTHER ->
           [exc |-> NoExc, title |-> argv.title, message |-> argv.message,
            timeout |-> IF argv.has_timeout THEN argv.timeout
                        ELSE config.timeout]

\* the clauses with the base class NotificationError tested first
MainHandlers_GenericFirst ==
    << [cls |-> "KeyboardInterrupt", code |-> ExitInterrupt],
       [cls |-> "NotificationError", code |-> ExitGeneric],
       [cls |-> "NotificationBackendError", code |-> ExitBackend],
       [cls |-> "ConfigurationError", code |-> ExitConfig],
       [cls |-> "PydanticValidationError", code |-> ExitValidation] >>

\* the except clauses of main, top to bottom, with the status each exits with
MainHandlers ==
    << [cls |-> "KeyboardInterrupt", code |-> ExitInterrupt],
       [cls |-> "NotificationBackendError", code |-> ExitBackend],
       [cls |-> "ConfigurationError", code |-> ExitConfig],
       [cls |-> "PydanticValidationError", code |-> ExitValidation],
       [cls |-> "NotificationError", code |-> ExitGeneric] >>

\* the exit status of the interpreter when `exc` leaves main uncaught
InterpreterExit(exc) ==
    IF exc.cls = "SystemExit" THEN exc.code ELSE ExitUncaught

\* the try statement of main: the first clause whose class matches handles
\* the exception and calls sys.exit; with none the exception leaves main
MainTryExit(exc) ==
    IF exc = NoExc THEN [code |-> ExitOk, handler |-> "None"]
    ELSE LET hits == {k \in 1..Len(MainHandlers) :
                        IsInstance(exc, MainHandlers[k].cls)} IN
         IF hits = {} THEN [code |-> InterpreterExit(exc), handler |-> "uncaught"]
         ELSE LET first == CHOOSE k \in hits : \A j \in hits : k <= j IN
              [code |-> MainHandlers[first].code,
               handler |-> MainHandlers[first].cls]

\* main(): `file` is what config/config.json holds
Main(argv, file, behaviour, d, c, avail, n, platform) ==
    LET cfg == LoadConfig("None", file)
        idle == [exc |-> cfg.exc, resolved |-> NoneP, cache |-> c,
                 attempts |-> 0, built |-> 0, has_request |-> FALSE,
                 request |-> NoRequest, sends |-> <<>>, send_ret |-> "None",
                 backend_calls |-> <<>>, behaviour |-> "None"]
    IN
    IF cfg.exc # NoExc
    THEN \* load_config() is called before the try statement
         [call |-> idle, code |-> InterpreterExit(cfg.exc),
          handler |-> "uncaught", config |-> cfg.value, called |-> FALSE,
          title |-> <<>>, message |-> <<>>, timeout |-> 0]
    ELSE LET args == ParseArgs(argv, cfg.value) IN
         IF args.exc # NoExc
         THEN LET x == MainTryExit(args.exc) IN
              [call |-> [idle EXCEPT !.exc = args.exc], code |-> x.code,
               handler |-> x.handler, config |-> cfg.value, called |-> FALSE,
               title |-> <<>>, message |-> <<>>, timeout |-> 0]
         ELSE LET sn == ShowNotification(args.title, args.message, "info",
                                         args.timeout, NoneP, behaviour,
                                         d, c, avail, n, platform)
                  x == MainTryExit(sn.exc)
              IN [call |-> sn, code |-> x.code, handler |-> x.handler,
                  config |-> cfg.value, called |-> TRUE,
                  title |-> args.title, message |-> args.message,
                  timeout |-> args.timeout]

(***************************************************************************)
(* State.                                                                   *)
(***************************************************************************)
VARIABLES
    default_provider,   \* the module global _default_provider
    cache,              \* what lru_cache holds for _get_cached_standard_provider
    backend_available,  \* DesktopNotifier is not None (fixed by the import)
    nstd,               \* StandardNotificationProvider instances constructed
    pc,                 \* "idle": the caller is between calls; "returned": a
                        \* call has just completed; "exited": the process ended
    last,               \* the call that has just completed
    nfail,              \* StandardNotificationProvider() calls that raised
    threads             \* per thread: where it is in get_default_provider()

vars ==
    <<default_provider, cache, backend_available, nstd, pc, last, nfail,
      threads>>

\* inputs explored
CallTimeouts == {TimeoutMin - 1, TimeoutMin, TimeoutMax, TimeoutMax + 1}
CallLevels == {"info", "error"}
ProviderArgs == CustomProviders \cup {NoneP}

MainFiles ==
    { MissingFile,
      File("malformed", EmptyData),
      File("json", [EmptyData EXCEPT !.timeout = JInt(30)]),
      File("json", [EmptyData EXCEPT !.timeout = JInt(ConfigTimeoutMax + 1)]) }

Argvs ==
    {Argv("ok", t, m, FALSE, 0) : t \in Titles, m \in Messages}
    \cup {Argv("ok", t, m, TRUE, s) : t \in Titles, m \in Messages,
                                      s \in CallTimeouts}
    \cup {Argv("usage", <<>>, <<>>, FALSE, 0), Argv("help", <<>>, <<>>, FALSE, 0)}

\* no decorated call was made
NoDeco ==
    [system |-> "None", plyer |-> "None", args |-> <<>>, kwargs |-> {},
     steps |-> <<>>, func_calls |-> <<>>]

NoCall ==
    [op |-> "none", a_title |-> <<>>, a_message |-> <<>>, a_level |-> "None",
     a_timeout |-> 0, a_has_timeout |-> FALSE, a_provider |-> NoneP,
     a_kind |-> "None", d0 |-> NoneP, c0 |-> NoneP,
     exc |-> NoExc, resolved |-> NoneP, attempts |-> 0, built |-> 0,
     has_request |-> FALSE, request |-> NoRequest, sends |-> <<>>,
     send_ret |-> "None", backend_calls |-> <<>>, behaviour |-> "None",
     exit |-> -1, handler |-> "None", called |-> FALSE,
     file |-> MissingFile, path |-> "None", config |-> NoConfig,
     p_title |-> <<>>, p_message |-> <<>>, p_timeout |-> 0,
     notify_calls |-> <<>>, deco |-> NoDeco]

\* the record of a call that went through show_notification
CallRecord(base, r) ==
    [base EXCEPT !.exc = r.exc, !.resolved = r.resolved,
                 !.attempts = r.attempts, !.built = r.built,
                 !.has_request = r.has_request, !.request = r.request,
                 !.sends = r.sends, !.send_ret = r.send_ret,
                 !.backend_calls = r.backend_calls,
                 !.behaviour = r.behaviour]

\* The behaviours and platforms worth drawing for a call: a call that makes
\* no send reads neither, and only the standard provider reads sys.platform.
BehavioursFor(r) == IF r.sends = <<>> THEN {"True"} ELSE Behaviours

PlatformsFor(r) ==
    IF r.sends # <<>> /\ r.resolved.cls = "Standard" THEN Platforms
    ELSE {"linux"}

\* the threads of a multi-threaded caller
Threads == 1..ThreadCount

\* a thread that is not inside get_default_provider(): `at` is its position,
\* `held` the instance it constructed and has not stored yet, `result` and
\* `exc` what its last call returned or raised
NoThreadCall == [at |-> "out", held |-> NoneP, result |-> NoneP, exc |-> NoExc]

\* the failed constructions seen so far, counted up to MaxFail
CountFailures(n, failed) == IF n + failed > MaxFail THEN MaxFail ELSE n + failed

Init ==
    /\ default_provider = NoneP
    /\ cache = NoneP
    /\ backend_available \in BOOLEAN
    /\ nstd = 0
    /\ pc = "idle"
    /\ last = NoCall
    /\ nfail = 0
    /\ threads = [t \in Threads |-> NoThreadCall]

\* set_default_provider(provider)
SetDefaultProvider(p) ==
    /\ pc = "idle"
    /\ default_provider' = p
    /\ pc' = "returned"
    /\ last' = [NoCall EXCEPT !.op = "set_default_provider", !.a_provider = p,
                              !.d0 = default_provider, !.c0 = cache]
    /\ UNCHANGED <<cache, backend_available, nstd, nfail, threads>>

\* set_default_provider(_get_cached_standard_provider()): how the tests put
\* the standard provider back
ResetDefaultProvider ==
    /\ pc = "idle"
    /\ nstd < MaxStd
    /\ LET r == GetCachedStandardProvider(cache, backend_available, nstd) IN
       /\ cache' = r.cache
       /\ nstd' = nstd + r.built
       /\ nfail' = CountFailures(nfail, r.attempts - r.built)
       /\ default_provider' = IF r.exc = NoExc THEN r.value ELSE default_provider
       /\ last' = [NoCall EXCEPT !.op = "reset", !.d0 = default_provider,
                                 !.c0 = cache, !.exc = r.exc,
                                 !.resolved = r.value,
                                 !.attempts = r.attempts, !.built = r.built]
    /\ pc' = "returned"
    /\ UNCHANGED <<backend_available, threads>>

\* provider = get_default_provider()
GetDefaultProviderCall ==
    /\ pc = "idle"
    /\ nstd < MaxStd
    /\ LET r == GetDefaultProvider(default_provider, cache, backend_available,
                                   nstd) IN
       /\ cache' = r.cache
       /\ nstd' = nstd + r.built
       /\ nfail' = CountFailures(nfail, r.attempts - r.built)
       /\ last' = [NoCall EXCEPT !.op = "get_default_provider",
                                 !.d0 = default_provider, !.c0 = cache,
                                 !.exc = r.exc, !.resolved = r.value,
                                 !.attempts = r.attempts, !.built = r.built]
    /\ pc' = "returned"
    /\ UNCHANGED <<default_provider, backend_available, threads>>

\* show_notification(title, message, level, timeout, provider) called by
\* library code
ShowNotificationCall(title, message, level, timeout, provider) ==
    /\ pc = "idle"
    /\ nstd < MaxStd
    /\ LET probe == ShowNotification(title, message, level, timeout, provider,
                                     "True", default_provider, cache,
                                     backend_available, nstd, "linux") IN
       \E behaviour \in BehavioursFor(probe), platform \in PlatformsFor(probe) :
         LET r == ShowNotification(title, message, level, timeout, provider,
                                   behaviour, default_provider, cache,
                                   backend_available, nstd, platform) IN
         /\ cache' = r.cache
         /\ nstd' = nstd + r.built
         /\ nfail' = CountFailures(nfail, r.attempts - r.built)
         /\ last' = CallRecord([NoCall EXCEPT !.op = "show_notification",
                                              !.a_title = title,
                                              !.a_message = message,
                                              !.a_level = level,
                                              !.a_timeout = timeout,
                                              !.a_has_timeout = TRUE,
                                              !.a_provider = provider,
                                              !.d0 = default_provider,
                                              !.c0 = cache], r)
    /\ pc' = "returned"
    /\ UNCHANGED <<default_provider, backend_available, threads>>

\* one run of main() to the end of the process
MainCall(argv, file) ==
    /\ pc = "idle"
    /\ nstd < MaxStd
    /\ LET probe == Main(argv, file, "True", default_provider, cache,
                         backend_available, nstd, "linux").call IN
       \E behaviour \in BehavioursFor(probe), platform \in PlatformsFor(probe) :
         LET m == Main(argv, file, behaviour, default_provider, cache,
                       backend_available, nstd, platform) IN
         /\ cache' = m.call.cache
         /\ nstd' = nstd + m.call.built
         /\ nfail' = CountFailures(nfail,
                                   m.call.attempts - m.call.built)
         /\ last' = CallRecord([NoCall EXCEPT !.op = "main",
                                              !.a_title = argv.title,
                                              !.a_message = argv.message,
                                              !.a_kind = argv.kind,
                                              !.a_timeout = argv.timeout,
                                              !.a_has_timeout = argv.has_timeout,
                                              !.d0 = default_provider,
                                              !.c0 = cache,
                                              !.exit = m.code,
                                              !.handler = m.handler,
                                              !.called = m.called,
                                              !.file = file,
                                              !.path = DefaultConfigPath,
                                              !.config = m.config,
                                              !.p_title = m.title,
                                              !.p_message = m.message,
                                              !.p_timeout = m.timeout],
                               m.call)
    /\ pc' = "exited"
    /\ UNCHANGED <<default_provider, backend_available, threads>>

\* the configurations the script variant may have loaded at import
LegacyConfigs == {DefaultConfig, [DefaultConfig EXCEPT !.timeout = 30]}

\* the timeouts given to the script variant, which checks none
LegacyTimeouts == {TimeoutMin, TimeoutMax + 1}

\* show_notification(title, message, timeout=...) of the script variant; a
\* SystemExit nobody catches ends the process
LegacyShowNotificationCall(title, message, has_timeout, timeout, config) ==
    /\ pc = "idle"
    /\ \E behaviour \in LegacyBehaviours :
         LET r == LegacyShowNotification(title, message, has_timeout, timeout,
                                         config, behaviour) IN
         /\ last' = [NoCall EXCEPT !.op = "legacy_show_notification",
                                   !.a_title = title, !.a_message = message,
                                   !.a_has_timeout = has_timeout,
                                   !.a_timeout = timeout,
                                   !.d0 = default_provider, !.c0 = cache,
                                   !.config = config,
                                   !.exc = r.exc,
                                   !.behaviour = behaviour,
                                   !.notify_calls = r.notify_calls,
                                   !.exit = IF r.exc.cls = "SystemExit"
                                            THEN InterpreterExit(r.exc)
                                            ELSE -1]
         /\ pc' = IF r.exc.cls = "SystemExit" THEN "exited" ELSE "returned"
    /\ UNCHANGED <<default_provider, cache, backend_available, nstd, nfail,
                 threads>>

\* the paths given to load_config: none, the empty string, a path
PathArgs == {"None", "", "custom.json"}

\* config = load_config(config_path)
LoadConfigCall(config_path, file) ==
    /\ pc = "idle"
    /\ LET r == LoadConfig(config_path, file) IN
       last' = [NoCall EXCEPT !.op = "load_config", !.a_kind = config_path,
                              !.d0 = default_provider, !.c0 = cache,
                              !.exc = r.exc, !.file = file, !.path = r.path,
                              !.config = r.value]
    /\ pc' = "returned"
    /\ UNCHANGED <<default_provider, cache, backend_available, nstd, nfail,
                 threads>>

\* the caller takes the outcome of the call and goes on to its next statement
Continue ==
    /\ pc = "returned"
    /\ pc' = "idle"
    /\ last' = NoCall
    /\ UNCHANGED <<default_provider, cache, backend_available, nstd, nfail,
                 threads>>

Next ==
    \/ \E p \in ProviderArgs : SetDefaultProvider(p)
    \/ ResetDefaultProvider
    \/ GetDefaultProviderCall
    \/ \E t \in Titles, m \in Messages, l \in CallLevels, s \in CallTimeouts,
          p \in ProviderArgs : ShowNotificationCall(t, m, l, s, p)
    \/ \E a \in Argvs, f \in MainFiles : MainCall(a, f)
    \/ \E path \in PathArgs, f \in MainFiles : LoadConfigCall(path, f)
    \/ \E t \in Titles, ht \in BOOLEAN, s \in LegacyTimeouts,
          cfg \in LegacyConfigs :
         /\ (~ht => s = TimeoutMin)
         /\ LegacyShowNotificationCall(t, <<"a">>, ht, s, cfg)
    \/ Continue

Spec == Init /\ [][Next]_vars

(***************************************************************************)
(* The configuration loader on its own: load_config applied to every file   *)
(* and path of the sets below.                                              *)
(***************************************************************************)
VersionValues ==
    { JAbsent, JStr(DefaultVersion), JStr(<<" ", "2", ".", "0", ".", "1">>),
      JStr(<<"1", ".", "0">>), JStr(<<"v", "1">>), JInt(1) }
DebugValues == {JAbsent, JBool(TRUE), JStr(<<"n", "o">>)}
TimeoutValues ==
    { JAbsent, JInt(ConfigTimeoutMin - 1), JInt(ConfigTimeoutMin), JInt(30),
      JInt(ConfigTimeoutMax + 1), JStr(<<"3", "0">>) }
AppNameValues == {JAbsent, JStr(<<>>), JStr(<<" ">>), JStr(<<"A", "p", "p">>)}

JsonData ==
    [shape : {"object", "array"}, extra : BOOLEAN, version : VersionValues,
     debug : DebugValues, timeout : TimeoutValues, app_name : AppNameValues]

ConfigFiles ==
    {File(st, EmptyData) : st \in {"missing", "unreadable", "undecodable",
                                   "malformed"}}
    \cup {File("json", data) : data \in JsonData}

\* config = load_config(config_path) with the dataclass variant
LegacyLoadConfigCall(config_path, file) ==
    /\ pc = "idle"
    /\ LET r == LegacyLoadConfig(config_path, file) IN
       last' = [NoCall EXCEPT !.op = "legacy_load_config",
                              !.a_kind = config_path,
                              !.d0 = default_provider, !.c0 = cache,
                              !.exc = r.exc, !.file = file, !.path = r.path,
                              !.config = r.value]
    /\ pc' = "returned"
    /\ UNCHANGED <<default_provider, cache, backend_available, nstd, nfail,
                 threads>>

LegacyPathArgs == {"None", "custom.json"}

ConfigNext ==
    \/ \E path \in PathArgs, f \in ConfigFiles : LoadConfigCall(path, f)
    \/ \E path \in LegacyPathArgs, f \in ConfigFiles :
         LegacyLoadConfigCall(path, f)
    \/ Continue

SpecConfig == Init /\ [][ConfigNext]_vars

(***************************************************************************)
(* The request model on its own: NotificationRequest constructed from every *)
(* input of the sets below, then assigned to and handed to a provider.      *)
(***************************************************************************)
RequestTexts == StrUpTo(MaxTextLen)
\* "critical" is a LogLevel, not a NotificationLevel
RequestLevels == Levels \cup {"critical"}
RequestTimeouts ==
    {-5, TimeoutMin - 1, TimeoutMin, 30, TimeoutMax, TimeoutMax + 1, 1000}

\* the value an assignment tries to store in each field
AssignedValue(field) ==
    CASE field = "title" -> <<"z">>
      [] field = "message" -> <<"z">>
      [] field = "level" -> "error"
      [] OTHER -> 20

RequestFields == {"title", "message", "level", "timeout"}

\* a caller holds a request object: the last call left one behind
HoldsRequest ==
    /\ pc = "returned"
    /\ last.has_request
    /\ last.op \in {"NotificationRequest", "setattr", "send_notification"}

\* request = NotificationRequest(title=..., message=..., [level=...],
\* [timeout=...])
ConstructRequestCall(title, message, has_level, level, has_timeout, timeout) ==
    /\ pc = "idle"
    /\ LET r == NotificationRequestWithDefaults(title, message, has_level,
                                                level, has_timeout, timeout) IN
       last' = [NoCall EXCEPT !.op = "NotificationRequest",
                              !.a_title = title, !.a_message = message,
                              !.a_level = IF has_level THEN level
                                          ELSE "omitted",
                              !.a_has_timeout = has_timeout,
                              !.a_timeout = IF has_timeout THEN timeout ELSE 0,
                              !.exc = r.exc,
                              !.has_request = (r.exc = NoExc),
                              !.request = r.value]
    /\ pc' = "returned"
    /\ UNCHANGED <<default_provider, cache, backend_available, nstd, nfail,
                 threads>>

\* request.<field> = value
SetAttrCall(field) ==
    /\ HoldsRequest
    /\ LET r == SetAttr(last.request, field, AssignedValue(field)) IN
       last' = [NoCall EXCEPT !.op = "setattr", !.a_kind = field,
                              !.exc = r.exc, !.has_request = TRUE,
                              !.request = r.value]
    /\ pc' = "returned"
    /\ UNCHANGED <<default_provider, cache, backend_available, nstd, nfail,
                 threads>>

\* StandardNotificationProvider().send_notification(request), or the same
\* with a provider of the caller's own
SendRequestCall(custom) ==
    /\ HoldsRequest
    /\ nstd < MaxStd
    /\ LET c == IF custom
                THEN [exc |-> NoExc,
                      value |-> [cls |-> "Custom", id |-> 1, truthy |-> TRUE]]
                ELSE StandardNotificationProviderInit(backend_available, nstd)
       IN
       IF c.exc # NoExc
       THEN /\ last' = [NoCall EXCEPT !.op = "send_notification",
                                      !.exc = c.exc, !.attempts = 1,
                                      !.has_request = TRUE,
                                      !.request = last.request]
            /\ nstd' = nstd
            /\ nfail' = CountFailures(nfail, 1)
       ELSE \E behaviour \in {"True", "RuntimeError"}, platform \in Platforms :
              LET r == SendNotification(c.value, last.request, behaviour,
                                        backend_available, platform) IN
              /\ last' = [NoCall EXCEPT !.op = "send_notification",
                                        !.resolved = c.value,
                                        !.exc = r.exc,
                                        !.attempts = IF custom THEN 0 ELSE 1,
                                        !.built = IF custom THEN 0 ELSE 1,
                                        !.has_request = TRUE,
                                        !.request = last.request,
                                        !.sends = <<[provider |-> c.value,
                                                     request |-> last.request]>>,
                                        !.send_ret = r.ret,
                                        !.backend_calls = r.calls,
                                        !.behaviour = behaviour]
              /\ nstd' = IF custom THEN nstd ELSE nstd + 1
              /\ nfail' = nfail
    /\ pc' = "returned"
    /\ UNCHANGED <<default_provider, cache, backend_available, threads>>

RequestNext ==
    \/ \E t \in RequestTexts, m \in Messages, hl \in BOOLEAN,
          l \in RequestLevels, ht \in BOOLEAN, s \in RequestTimeouts :
         /\ (~hl => l = "info")
         /\ (~ht => s = TimeoutMin)
         /\ ConstructRequestCall(t, m, hl, l, ht, s)
    \/ \E f \in RequestFields : SetAttrCall(f)
    \/ \E custom \in BOOLEAN : SendRequestCall(custom)
    \/ Continue

SpecRequest == Init /\ [][RequestNext]_vars

(***************************************************************************)
(* The decorator on its own: a decorated function called on every platform  *)
(* and backend state of the sets below.                                     *)
(***************************************************************************)
Systems == SUPPORTED_PLATFORMS \cup {"FreeBSD", "Java"}
PlyerStates == {"missing", "no_notify", "ok"}
PositionalArgs == {<<>>, <<"arg1">>, <<"arg1", "arg2">>}
KeywordArgs ==
    { {}, {[key |-> "key1", value |-> "value1"]},
      {[key |-> "key1", value |-> "value1"],
       [key |-> "key2", value |-> "value2"]} }
FuncBehaviours == {"None", "RuntimeError"}

\* test_func(*args, **kwargs) for a test_func decorated with
\* require_notification_backend
DecoratedCall(system, plyer, args, kwargs, behaviour) ==
    /\ pc = "idle"
    /\ LET r == RequireNotificationBackend(system, plyer, args, kwargs,
                                           behaviour) IN
       last' = [NoCall EXCEPT !.op = "decorated", !.exc = r.exc,
                              !.behaviour = behaviour,
                              !.deco = [system |-> system, plyer |-> plyer,
                                        args |-> args, kwargs |-> kwargs,
                                        steps |-> r.steps,
                                        func_calls |-> r.func_calls]]
    /\ pc' = "returned"
    /\ UNCHANGED <<default_provider, cache, backend_available, nstd, nfail,
                 threads>>

DecoratorNext ==
    \/ \E sys \in Systems, pl \in PlyerStates, a \in PositionalArgs,
          k \in KeywordArgs, b \in FuncBehaviours :
         DecoratedCall(sys, pl, a, k, b)
    \/ Continue

SpecDecorator == Init /\ [][DecoratorNext]_vars

(***************************************************************************)
(* get_default_provider() called from several threads.  Nothing in the      *)
(* module takes a lock: the read of _default_provider, the lookup in the    *)
(* lru_cache, the call of the constructor and the store of its result are   *)
(* separate steps between which another thread may run.  lru_cache keeps    *)
(* the entry that is already there when a second result for the same key    *)
(* arrives, and hands the caller the result of its own call.                *)
(***************************************************************************)
\* `if _default_provider is not None: return _default_provider`
ThreadEnter(t) ==
    /\ threads[t].at = "out"
    /\ threads' = [threads EXCEPT ![t] =
                     IF default_provider # NoneP
                     THEN [NoThreadCall EXCEPT !.at = "done",
                                               !.result = default_provider]
                     ELSE [NoThreadCall EXCEPT !.at = "lookup"]]
    /\ UNCHANGED <<default_provider, cache, backend_available, nstd, pc, last,
                   nfail>>

\* the lru_cache wrapper looks the key up: a hit returns the cached instance
ThreadLookup(t) ==
    /\ threads[t].at = "lookup"
    /\ threads' = [threads EXCEPT ![t] =
                     IF cache # NoneP
                     THEN [@ EXCEPT !.at = "done", !.result = cache]
                     ELSE [@ EXCEPT !.at = "call"]]
    /\ UNCHANGED <<default_provider, cache, backend_available, nstd, pc, last,
                   nfail>>

\* on a miss the wrapper calls the function: StandardNotificationProvider()
ThreadConstruct(t) ==
    /\ threads[t].at = "call"
    /\ nstd < MaxStd
    /\ LET r == StandardNotificationProviderInit(backend_available, nstd) IN
       IF r.exc # NoExc
       THEN /\ threads' = [threads EXCEPT ![t] =
                             [@ EXCEPT !.at = "done", !.exc = r.exc]]
            /\ nfail' = CountFailures(nfail, 1)
            /\ nstd' = nstd
       ELSE /\ threads' = [threads EXCEPT ![t] =
                             [@ EXCEPT !.at = "store", !.held = r.value]]
            /\ nfail' = nfail
            /\ nstd' = nstd + 1
    /\ UNCHANGED <<default_provider, cache, backend_available, pc, last>>

\* the wrapper stores the result unless the key arrived meanwhile, and
\* returns the result of its own call either way
ThreadStore(t) ==
    /\ threads[t].at = "store"
    /\ cache' = IF cache = NoneP THEN threads[t].held ELSE cache
    /\ threads' = [threads EXCEPT ![t] =
                     [@ EXCEPT !.at = "done",
                                !.result = threads[t].held]]
    /\ UNCHANGED <<default_provider, backend_available, nstd, pc, last, nfail>>

\* the caller has its provider (or its exception) and may call again
ThreadReturn(t) ==
    /\ threads[t].at = "done"
    /\ threads' = [threads EXCEPT ![t] = NoThreadCall]
    /\ UNCHANGED <<default_provider, cache, backend_available, nstd, pc, last,
                   nfail>>

ThreadNext ==
    \/ \E t \in Threads : ThreadEnter(t)
    \/ \E t \in Threads : ThreadLookup(t)
    \/ \E t \in Threads : ThreadConstruct(t)
    \/ \E t \in Threads : ThreadStore(t)
    \/ \E t \in Threads : ThreadReturn(t)
    \/ \E p \in CustomProviders : SetDefaultProvider(p)
    \/ Continue

SpecThreads == Init /\ [][ThreadNext]_vars

(***************************************************************************)
(* Properties.                                                              *)
(***************************************************************************)
\* the arguments of the completed call form a valid request
ArgsValid ==
    /\ Strip(last.a_title) # <<>>
    /\ Strip(last.a_message) # <<>>
    /\ last.a_timeout >= TimeoutMin
    /\ last.a_timeout <= TimeoutMax

\* the completed call went to show_notification without a per-call provider
NoProviderArg ==
    \/ last.op = "show_notification" /\ last.a_provider = NoneP
    \/ last.op = "main" /\ last.called

\* C1: a show_notification call given a per-call provider P (with arguments
\* that form a valid request) invokes P.send_notification exactly once and
\* invokes no other provider, whatever the global default and the cache hold.
C1_PerCallProviderWins ==
    (last.op = "show_notification" /\ last.a_provider # NoneP /\ ArgsValid)
    => /\ Len(last.sends) = 1
       /\ last.sends[1].provider = last.a_provider
       /\ last.backend_calls = <<>>

\* C2: with a global default G set and no per-call provider, resolution
\* returns G itself, the standard provider is neither constructed nor
\* invoked, and a valid request is sent to G exactly once; this holds in
\* every call made while the slot holds G.
C2_GlobalDefaultUsed ==
    /\ (last.op = "get_default_provider" /\ last.d0 \in CustomProviders)
       => /\ last.resolved = last.d0
          /\ last.exc = NoExc
          /\ last.attempts = 0 /\ last.built = 0 /\ cache = last.c0
    /\ (NoProviderArg /\ last.d0 \in CustomProviders)
       => /\ last.resolved = last.d0
          /\ last.attempts = 0 /\ last.built = 0 /\ cache = last.c0
          /\ last.backend_calls = <<>>
          /\ last.has_request
             => last.sends = <<[provider |-> last.d0,
                                request |-> last.request]>>
          /\ ~last.has_request => last.sends = <<>>

C2_Witness ==
    /\ last.op = "show_notification" /\ last.a_provider = NoneP
    /\ last.d0 \in CustomProviders /\ ~last.d0.truthy
    /\ last.c0 # NoneP
    /\ Len(last.sends) = 1 /\ last.sends[1].provider = last.d0

\* the exit status the specification's table gives the failure `exc`
TableExit(exc) ==
    CASE exc = NoExc -> ExitOk
      [] exc.cls = "KeyboardInterrupt" -> ExitInterrupt
      [] exc.cls = "NotificationBackendError" -> ExitBackend
      [] exc.cls = "ConfigurationError" -> ExitConfig
      [] exc.cls = "PydanticValidationError" -> ExitValidation
      [] OTHER -> ExitGeneric

\* C3: when main reaches the notification step, its exit status is fixed by
\* what the step raised: 0 for a normal return, 1 for KeyboardInterrupt, 2
\* for NotificationBackendError, 3 for ConfigurationError, 4 for the request
\* validation error and 1 for any other NotificationError; a backend or a
\* configuration error never exits with 1.
C3_ExitCodeByFailureKind ==
    (last.op = "main" /\ last.called
        /\ (last.exc = NoExc \/ IsInstance(last.exc, "NotificationError")
            \/ last.exc.cls \in {"KeyboardInterrupt", "PydanticValidationError"}))
    => /\ last.exit = TableExit(last.exc)
       /\ last.exc.cls \in {"NotificationBackendError", "ConfigurationError"}
          => last.exit # ExitGeneric

C3_Witness ==
    /\ last.op = "main" /\ last.called
    /\ last.exc.cls = "ConfigurationError" /\ last.exit = ExitConfig

\* C4: a configuration error raised while main loads the configuration at
\* startup ends the process with exit status 3.
C4_StartupConfigErrorExits3 ==
    (last.op = "main" /\ LoadConfig("None", last.file).exc # NoExc)
    => last.exit = ExitConfig

\* C5: main invoked with an empty or whitespace-only title or message (and a
\* loadable configuration) exits with status 4 and sends nothing, whichever
\* provider would be resolved and whether or not the backend is available.
C5_BlankTextExits4 ==
    (last.op = "main" /\ last.called
        /\ (Strip(last.a_title) = <<>> \/ Strip(last.a_message) = <<>>))
    => /\ last.exit = ExitValidation
       /\ last.sends = <<>>

\* the timeout main hands over: --timeout, else the configured default
MainTimeout ==
    IF last.a_has_timeout THEN last.a_timeout ELSE last.config.timeout

\* a run of main that returned normally
MainSucceeded == last.op = "main" /\ last.called /\ last.exc = NoExc

\* C6 as stated: a successful run of main with title T, message M and
\* timeout S makes exactly one send whose request carries T, M and S, and
\* exits with status 0.
C6_RequestCarriesArguments ==
    MainSucceeded
    => /\ last.exit = ExitOk
       /\ Len(last.sends) = 1
       /\ last.sends[1].request.title = last.a_title
       /\ last.sends[1].request.message = last.a_message
       /\ last.sends[1].request.timeout = MainTimeout

\* C6 amended: a successful run of main with title T, message M and timeout
\* S makes exactly one send, to the resolved provider, whose request carries
\* T and M with leading and trailing whitespace removed and the timeout S,
\* and exits with status 0.
C6_RequestCarriesTrimmedArguments ==
    MainSucceeded
    => /\ last.exit = ExitOk
       /\ last.sends = <<[provider |-> last.resolved,
                          request |-> [title |-> Strip(last.a_title),
                                       message |-> Strip(last.a_message),
                                       level |-> "info",
                                       timeout |-> MainTimeout]]>>

C6_Witness ==
    /\ MainSucceeded /\ last.exit = ExitOk
    /\ last.a_title # Strip(last.a_title)
    /\ last.a_has_timeout /\ last.a_timeout # last.config.timeout
    /\ Len(last.sends) = 1

\* C7: when the send of the resolved provider raises a generic exception in
\* a run of main, the process exits with status 1 and send was invoked
\* exactly once.
C7_GenericFailureExits1NoRetry ==
    (last.op = "main" /\ last.behaviour = "RuntimeError")
    => /\ last.exit = ExitGeneric
       /\ Len(last.sends) = 1

C7_Witness ==
    /\ last.op = "main" /\ last.behaviour = "RuntimeError"
    /\ last.resolved.cls = "Standard"
    /\ last.exc.cls = "NotificationError" /\ last.exit = ExitGeneric

\* C8: the standard provider is constructed at most once, on the first
\* resolution that finds no global default, and every resolution without a
\* global default returns that one cached instance.
C8_StandardProviderSingleton ==
    /\ nstd <= 1
    /\ cache # NoneP => (nstd = 1 /\ cache = StandardInstance(1))
    /\ (/\ last.op = "get_default_provider" \/ NoProviderArg
        /\ last.d0 = NoneP
        /\ last.resolved # NoneP)
       => /\ last.resolved = cache
          /\ last.c0 # NoneP => (last.resolved = last.c0 /\ last.built = 0)
          /\ last.c0 = NoneP => last.built = 1

C8_Witness ==
    /\ last.op = "get_default_provider" /\ last.d0 = NoneP
    /\ last.c0 # NoneP /\ last.resolved = last.c0 /\ nstd = 1

\* C9: once the global default G is reset (set back to the cached standard
\* provider) or cleared, get_default_provider returns the cached standard
\* provider: the instance cached before, neither G nor a fresh one; and a
\* second reset changes nothing.
C9_ResetRestoresCachedStandard ==
    LET now == GetDefaultProvider(default_provider, cache, backend_available,
                                  nstd) IN
    /\ (last.op = "reset" /\ last.exc = NoExc)
       => /\ default_provider = cache
          /\ now.value = cache /\ now.built = 0
          /\ last.c0 # NoneP => cache = last.c0
          /\ (last.d0 = last.c0 /\ last.c0 # NoneP)
             => (default_provider = last.d0 /\ cache = last.c0)
    /\ (last.op = "set_default_provider" /\ last.a_provider = NoneP
           /\ last.c0 # NoneP)
       => (now.value = last.c0 /\ now.built = 0)

C9_Witness ==
    /\ last.op = "reset" /\ last.exc = NoExc
    /\ last.d0 \in CustomProviders
    /\ last.c0 # NoneP /\ default_provider = last.c0

\* the file is there but cannot be read, is not JSON, or holds a value that
\* fails its field's constraint
FileUnloadable(file) ==
    \/ file.state \in {"unreadable", "undecodable", "malformed"}
    \/ /\ file.state = "json"
       /\ \/ file.data.shape # "object"
          \/ file.data.extra
          \/ file.data.version # JAbsent /\ ~VersionOk(file.data.version)
          \/ file.data.debug # JAbsent /\ ~DebugOk(file.data.debug)
          \/ file.data.timeout # JAbsent /\ ~ConfigTimeoutOk(file.data.timeout)
          \/ file.data.app_name # JAbsent /\ ~AppNameOk(file.data.app_name)

\* the path load_config was asked to read
AskedPath ==
    IF last.a_kind \in {"None", ""} THEN "config/config.json" ELSE last.a_kind

\* C10: load_config on an existing file that is malformed JSON, holds
\* invalid values or cannot be read raises ConfigurationError with the
\* file's path in its message, and returns no configuration.
C10_UnloadableFileRaises ==
    (last.op = "load_config" /\ FileUnloadable(last.file))
    => /\ last.exc.cls = "ConfigurationError"
       /\ \E k \in 1..Len(last.exc.msg) : last.exc.msg[k] = AskedPath
       /\ last.config = NoConfig

C10_Witness ==
    /\ last.op = "load_config"
    /\ last.file.state = "json" /\ last.file.data.timeout = JInt(30)
    /\ last.file.data.debug = JStr(<<"n", "o">>)
    /\ last.a_kind = "custom.json"
    /\ last.exc.cls = "ConfigurationError"

Spaces(n) == [i \in 1..n |-> " "]

\* `t` is `s` with its leading and trailing whitespace removed and nothing
\* else changed
IsTrimOf(t, s) ==
    /\ t # <<>> => (t[1] # " " /\ t[Len(t)] # " ")
    /\ \E i \in 0..Len(s), j \in 0..Len(s) : s = Spaces(i) \o t \o Spaces(j)

\* the completed call is one of the two configuration loaders on a file
\* that exists
ConfigCallOnFile ==
    /\ last.op \in {"load_config", "legacy_load_config"}
    /\ last.file.state # "missing"

AllDefaultsConfig ==
    [version |-> <<"1", ".", "0", ".", "0">>, debug |-> FALSE,
     app_name |-> <<"C", "l", "a", "u", "d", "e", " ", "C", "o", "d", "e">>,
     timeout |-> 10]

ConfigFields == {"version", "debug", "timeout", "app_name"}

FieldPresent(f) == last.file.state = "json" /\ last.file.data[f] # JAbsent

\* the returned configuration holds exactly the value the file gives field f
FieldHoldsFileValue(f) ==
    CASE f = "version" -> last.file.data.version = JStr(last.config.version)
      [] f = "app_name" -> last.file.data.app_name = JStr(last.config.app_name)
      [] f = "debug" -> last.file.data.debug = JBool(last.config.debug)
      [] OTHER -> last.file.data.timeout = JInt(last.config.timeout)

\* the same, a string value being held with or without its surrounding
\* whitespace
FieldHoldsTrimmedFileValue(f) ==
    \/ FieldHoldsFileValue(f)
    \/ /\ f \in {"version", "app_name"}
       /\ last.file.data[f].t = "str"
       /\ IsTrimOf(last.config[f], last.file.data[f].s)

\* every field of the returned configuration satisfies the constraint its
\* model class declares: timeout in 1..300 and a non-blank app_name in both
\* variants, a semver-shaped version and an app_name of at most 100
\* characters in the pydantic models, a non-blank version in the dataclasses
ConfigConstraintsOk ==
    /\ last.config.timeout >= 1 /\ last.config.timeout <= 300
    /\ \E i \in 1..Len(last.config.app_name) : last.config.app_name[i] # " "
    /\ last.config.debug \in BOOLEAN
    /\ IF last.op = "load_config"
       THEN /\ SemverFrom(last.config.version, 1, FALSE)
            /\ Len(last.config.app_name) <= 100
       ELSE \E i \in 1..Len(last.config.version) : last.config.version[i] # " "

FieldValidInFile(f) ==
    LET v == last.file.data[f] IN
    CASE f = "version" -> v.t = "str" /\ SemverFrom(v.s, 1, FALSE)
      [] f = "app_name" -> v.t = "str" /\ v.s # <<>> /\ v.s[1] # " "
                           /\ v.s[Len(v.s)] # " " /\ Len(v.s) <= 100
      [] f = "debug" -> v.t = "bool"
      [] OTHER -> v.t = "int" /\ v.i >= 1 /\ v.i <= 300

\* the file is a JSON object that validly sets some of the four fields,
\* leaves the others out and has no other key
FileSetsSomeFields ==
    /\ last.file.state = "json"
    /\ last.file.data.shape = "object" /\ ~last.file.data.extra
    /\ \E f \in ConfigFields : FieldPresent(f)
    /\ \E f \in ConfigFields : ~FieldPresent(f)
    /\ \A f \in ConfigFields : FieldPresent(f) => FieldValidInFile(f)

NonBlank(s) == \E i \in 1..Len(s) : s[i] # " "

\* C14: for every title and message that are non-empty after trimming and
\* every timeout in 1..300, constructing a NotificationRequest succeeds, the
\* stored title and message are the inputs without their leading and
\* trailing whitespace and otherwise unchanged, the level is info when
\* omitted and the timeout 10 when omitted.
C14_ValidRequestStoresTrimmed ==
    ( /\ last.op = "NotificationRequest"
      /\ NonBlank(last.a_title) /\ NonBlank(last.a_message)
      /\ last.a_level \in {"info", "success", "warning", "error", "omitted"}
      /\ (last.a_has_timeout => (last.a_timeout >= 1 /\ last.a_timeout <= 300)) )
    => /\ last.exc = NoExc /\ last.has_request
       /\ IsTrimOf(last.request.title, last.a_title)
       /\ IsTrimOf(last.request.message, last.a_message)
       /\ last.request.level
            = (IF last.a_level = "omitted" THEN "info" ELSE last.a_level)
       /\ last.request.timeout
            = (IF last.a_has_timeout THEN last.a_timeout ELSE 10)

C14_Witness ==
    /\ last.op = "NotificationRequest"
    /\ last.a_title = <<" ", "a", "a">> /\ last.a_message = <<"a">>
    /\ last.a_level = "omitted" /\ ~last.a_has_timeout
    /\ last.request
         = [title |-> <<"a", "a">>, message |-> <<"a">>, level |-> "info",
            timeout |-> 10]

\* C15: constructing a NotificationRequest fails with a validation error and
\* yields no request whenever the title or the message is empty or
\* whitespace-only or the timeout is outside 1..300; the timeouts 1 and 300
\* are accepted.
C15_InvalidRequestRejected ==
    /\ ( /\ last.op = "NotificationRequest"
         /\ \/ ~NonBlank(last.a_title)
            \/ ~NonBlank(last.a_message)
            \/ last.a_has_timeout /\ (last.a_timeout < 1 \/ last.a_timeout > 300) )
       => /\ last.exc.cls = "PydanticValidationError"
          /\ IsInstance(last.exc, "ValueError")
          /\ ~last.has_request /\ last.request = NoRequest
    /\ ( /\ last.op = "NotificationRequest"
         /\ NonBlank(last.a_title) /\ NonBlank(last.a_message)
         /\ last.a_level \in {"info", "success", "warning", "error", "omitted"}
         /\ last.a_has_timeout /\ last.a_timeout \in {1, 300} )
       => last.exc = NoExc /\ last.has_request

C15_Witness ==
    /\ last.op = "NotificationRequest"
    /\ last.a_title = <<" ", " ">> /\ last.a_message = <<"a">>
    /\ last.a_has_timeout /\ last.a_timeout = 300
    /\ last.exc.cls = "PydanticValidationError" /\ ~last.has_request

\* C16: a constructed NotificationRequest is immutable: an assignment to any
\* of its fields raises an error and leaves the four fields as they were,
\* and handing the request to a provider leaves it as it was.
C16_RequestImmutable ==
    [][ /\ (last'.op = "setattr")
           => (last'.exc # NoExc /\ last'.request = last.request)
        /\ (last'.op = "send_notification")
           => (last'.request = last.request
               /\ \A k \in 1..Len(last'.sends) :
                    last'.sends[k].request = last.request) ]_vars

C16_Witness ==
    /\ last.op = "setattr" /\ last.a_kind = "timeout"
    /\ last.exc.cls = "PydanticValidationError"
    /\ last.request.title = <<"a", " ", "a">> /\ last.request.timeout = 300

\* the completed call had the standard provider send a request
StandardSent == last.sends # <<>> /\ last.resolved.cls = "Standard"

\* C17: when the backend's send method is unavailable at the time the
\* standard provider sends, send_notification raises
\* NotificationBackendError, not the generic NotificationError.
C17_MissingSendIsBackendError ==
    (StandardSent /\ last.behaviour = "AttributeError")
    => last.exc.cls = "NotificationBackendError"

C19_ImportFailureIsBackendError ==
    (last.attempts = 1 /\ ~backend_available)
    => /\ last.exc.cls = "NotificationBackendError"
       /\ last.exc.cause = "ImportError"
       /\ last.built = 0 /\ cache = NoneP
       /\ last.sends = <<>> /\ last.backend_calls = <<>>
       /\ (last.op = "main") => (last.exit = 2)

C19_Witness ==
    /\ last.op = "main" /\ last.called /\ ~backend_available
    /\ last.attempts = 1 /\ last.exc.cls = "NotificationBackendError"
    /\ last.exit = 2 /\ last.sends = <<>>

\* the completed call raised, and the exception was raised by the core: it
\* is not an exception a custom provider's own send raised, not an interrupt
\* and not argparse's exit
CoreRaised ==
    /\ last.op \in {"show_notification", "get_default_provider", "reset", "main"}
    /\ last.exc # NoExc
    /\ ~(last.sends # <<>> /\ last.resolved.cls = "Custom")
    /\ last.exc.cls \notin {"KeyboardInterrupt", "SystemExit"}

\* C20: every failure the core raises (configuration, request validation,
\* backend unavailability, delivery) is an instance of NotificationError,
\* the validation failure of the request constructed by show_notification
\* included.
C20_AllFailuresAreNotificationErrors ==
    CoreRaised => IsInstance(last.exc, "NotificationError")

\* the operations of the core, in both variants of the repository
CoreOps ==
    {"show_notification", "legacy_show_notification", "load_config",
     "get_default_provider", "set_default_provider", "reset"}

\* C21: no core operation (show_notification with the provider's send,
\* load_config) terminates the process: each returns or raises an ordinary
\* exception to its caller, and only main ends in a process exit.
C21_CoreNeverExits ==
    /\ (last.op \in CoreOps)
       => (last.exc.cls # "SystemExit" /\ last.exit = -1 /\ pc # "exited")
    /\ (pc = "exited") => (last.op = "main")

\* C22: the standard provider's send_notification calls the backend exactly
\* once per request, with the request's title and message and a timeout
\* equal to the request's timeout, and returns True when the backend call
\* succeeds.
C22_BackendGetsRequestTimeout ==
    (StandardSent /\ last.exc = NoExc)
    => /\ Len(last.backend_calls) = 1
       /\ last.backend_calls[1].title = last.request.title
       /\ last.backend_calls[1].message = last.request.message
       /\ last.backend_calls[1].timeout_ms = last.request.timeout
       /\ last.send_ret = "True"

\* C23: the standard provider maps the level error to the critical urgency
\* and each of info, success and warning to the normal urgency.
C23_UrgencyByLevel ==
    (last.op = "send_notification" /\ StandardSent)
    => /\ Len(last.backend_calls) = 1
       /\ (last.request.level = "error")
          => (last.backend_calls[1].urgency = "Critical")
       /\ (last.request.level \in {"info", "success", "warning"})
          => (last.backend_calls[1].urgency = "Normal")
       /\ last.request.level \in {"info", "success", "warning", "error"}

C23_Witness ==
    /\ last.op = "send_notification" /\ StandardSent
    /\ last.request.level = "warning"
    /\ last.backend_calls[1].urgency = "Normal"

\* the number of times `step` occurs in the steps of the decorated call
StepCount(step) ==
    Cardinality({k \in 1..Len(last.deco.steps) : last.deco.steps[k] = step})

PlatformSupported == last.deco.system \in {"Windows", "Darwin", "Linux"}

\* C24: a function wrapped by require_notification_backend runs platform
\* validation, backend validation and the function in that order, each at
\* most once per call; a failed platform validation stops before the backend
\* validation, a failed backend validation before the function, and when
\* both pass the function is called exactly once with the original
\* positional and keyword arguments.
C24_DecoratorOrder ==
    (last.op = "decorated")
    => /\ \A st \in {"validate_platform_support",
                     "validate_backend_available", "func"} :
            StepCount(st) <= 1
       /\ \A i, j \in 1..Len(last.deco.steps) :
            (last.deco.steps[i] = "validate_platform_support" /\ i # j) => i < j
       /\ \A i \in 1..Len(last.deco.steps) :
            (last.deco.steps[i] = "func") => (i = Len(last.deco.steps))
       /\ StepCount("validate_platform_support") = 1
       /\ ~PlatformSupported
          => /\ StepCount("validate_backend_available") = 0
             /\ StepCount("func") = 0 /\ last.deco.func_calls = <<>>
             /\ last.exc.cls = "NotificationBackendError"
       /\ (PlatformSupported /\ last.deco.plyer # "ok")
          => /\ StepCount("validate_backend_available") = 1
             /\ StepCount("func") = 0 /\ last.deco.func_calls = <<>>
             /\ last.exc.cls = "NotificationBackendError"
       /\ (PlatformSupported /\ last.deco.plyer = "ok")
          => /\ StepCount("validate_backend_available") = 1
             /\ StepCount("func") = 1
             /\ last.deco.func_calls
                  = <<[args |-> last.deco.args, kwargs |-> last.deco.kwargs]>>

C24_Witness ==
    /\ last.op = "decorated" /\ last.deco.system = "Linux"
    /\ last.deco.plyer = "ok" /\ last.exc = NoExc
    /\ last.deco.args = <<"arg1", "arg2">>
    /\ Cardinality(last.deco.kwargs) = 2
    /\ Len(last.deco.func_calls) = 1

\* C25: the timeout main passes to show_notification is the --timeout value
\* when the option is given and otherwise the notification.timeout of the
\* loaded configuration; title and message are passed as given on the
\* command line.
C25_MainPassesArguments ==
    (last.op = "main" /\ last.called)
    => /\ last.p_title = last.a_title
       /\ last.p_message = last.a_message
       /\ last.a_has_timeout => (last.p_timeout = last.a_timeout)
       /\ ~last.a_has_timeout
          => /\ last.p_timeout = last.config.timeout
             /\ (last.file.state = "json")
                => (JInt(last.p_timeout) = last.file.data.timeout)
             /\ (last.file.state = "missing") => (last.p_timeout = 10)

C25_Witness ==
    /\ last.op = "main" /\ last.called
    /\ last.a_has_timeout /\ last.a_timeout = 300
    /\ last.config.timeout = 30 /\ last.p_timeout = 300
    /\ last.p_title = <<"a", " ">>

C27_ExitBackendOnlyForBackendError ==
    (last.op = "main" /\ last.exit = 2)
    => IsInstance(last.exc, "NotificationBackendError")

\* C28: every request-validation failure that reaches main gives exit
\* status 4, whether it is the validation library's error or the project's
\* own ValidationError.
C28_ValidationFailureExits4 ==
    (last.op = "main"
     /\ last.exc.cls \in {"PydanticValidationError", "ValidationError"})
    => last.exit = 4

\* C29: when threads resolve the default provider concurrently with no
\* global default set, at most one standard provider instance is ever
\* constructed and the threads that got a standard provider hold the same
\* instance, whatever the interleaving.
C29_SingleInstanceUnderThreads ==
    /\ nstd <= 1
    /\ \A t \in Threads, u \in Threads :
         (threads[t].at = "done" /\ threads[u].at = "done"
          /\ threads[t].result.cls = "Standard"
          /\ threads[u].result.cls = "Standard")
         => threads[t].result = threads[u].result

\* the completed call resolved the default provider: it went through
\* get_default_provider(), or straight to _get_cached_standard_provider()
ResolvedDefault ==
    \/ last.op \in {"get_default_provider", "reset"}
    \/ last.op = "show_notification" /\ ~Truthy(last.a_provider)
    \/ last.op = "main" /\ last.called

\* C30: a failed construction of the standard provider is not cached.  While
\* the library is unavailable the cache and the global slot never hold a
\* standard provider, a failing resolution leaves the global slot as it was,
\* every resolution that finds the slot empty attempts the construction
\* again and raises NotificationBackendError again, and once
\* set_default_provider(G) has run resolution yields G without constructing.
C30_FailedConstructionNotCached ==
    ~backend_available
    => /\ cache = NoneP
       /\ default_provider.cls # "Standard"
       /\ (ResolvedDefault /\ (last.d0 = NoneP \/ last.op = "reset"))
          => /\ last.attempts = 1 /\ last.built = 0
             /\ last.exc.cls = "NotificationBackendError"
             /\ last.resolved = NoneP
             /\ default_provider = last.d0
       /\ (ResolvedDefault /\ last.d0 \in CustomProviders /\ last.op # "reset")
          => /\ last.attempts = 0
             /\ last.resolved = last.d0

\* construction failed twice, then a custom provider was set and resolved
C30_Witness ==
    /\ ~backend_available /\ nfail >= 2
    /\ last.op = "get_default_provider"
    /\ last.d0 \in CustomProviders
    /\ last.resolved = last.d0 /\ last.exc = NoExc

====
